---- MODULE Spec2Model ----
(***************************************************************************)
(* Model of the combat tracker in src/src/App.jsx: the pure helpers        *)
(* (clamp, sortByInit, applyDamagePure, applyHealPure) and the React       *)
(* component's event handlers, each handler one atomic action on the       *)
(* component state (combatants, graveyard, activeId, round, settings,      *)
(* toast).                                                                 *)
(*                                                                         *)
(* Conventions.  JavaScript null is the integer Null, which lies outside   *)
(* every numeric domain of the model.  A combatant is a record; the        *)
(* fields createdAt (never read by any handler) is left out, removedAt is  *)
(* NoTime until the combatant is moved to the graveyard.  Names are        *)
(* numbers standing for their rank under String.localeCompare.  ids are    *)
(* 1, 2, ... in creation order (uid() is modelled as always fresh).        *)
(***************************************************************************)
EXTENDS Integers, Sequences, FiniteSets, TLC

VARIABLES combatants, graveyard, activeId, round, settings, toast,
          nextId, hpOps, toastAge, shownFor, last, deleted, movedAt,
          rolling, sortInput, sortOutput

vars == <<combatants, graveyard, activeId, round, settings, toast,
          nextId, hpOps, toastAge, shownFor, last, deleted, movedAt,
          rolling, sortInput, sortOutput>>

----------------------------------------------------------------------------
(* Bounds of the model *)

MaxIds == 3
MaxRound == 2
MaxToastAge == 1
MaxHpOps == 2
MaxHpIds == 2
MaxLen == 3
MaxRestoreIds == 2
MaxTieIds == 3
MaxAnyIds == 2
MaxToastIds == 2
MaxLoadIds == 2
MaxOrderIds == 3
MaxTurnIds == 3
MaxTrail == 3
MaxRollIds == 21
MaxTwoInits == 2
MaxFresh == 1
MaxStale == 2
MaxUndoIds == 2

----------------------------------------------------------------------------
(* Program constants *)

Null == -1000000
NegInf == -500000
HpFloor == -9999
NoTime == 0
Stamp == 1
NotNumber == -2000000
TieMin == 1
TieMax == 20
ToastSeconds == 5
DieSides == 20

----------------------------------------------------------------------------
(* Pure helpers *)

Min2(a, b) == IF a <= b THEN a ELSE b
Max2(a, b) == IF a >= b THEN a ELSE b
Abs(n) == IF n < 0 THEN 0 - n ELSE n

clamp(n, lo, hi) == Max2(lo, Min2(hi, n))

\* a.name.localeCompare(b.name) on names given by their collation rank
localeCompare(a, b) == a - b

TieKey(c) == IF c.tie = Null THEN NegInf ELSE c.tie

\* Comparator of sortByInit, ascending initiative (a plausible slip of the
\* operands of the first subtraction)
CompareAscInit(a, b) ==
    IF b.init # a.init THEN a.init - b.init
    ELSE IF TieKey(b) # TieKey(a) THEN TieKey(b) - TieKey(a)
    ELSE localeCompare(a.name, b.name)

\* The comparator passed to Array.prototype.sort by sortByInit: negative
\* when a goes first, positive when b goes first
Compare(a, b) ==
    IF b.init # a.init THEN b.init - a.init
    ELSE IF TieKey(b) # TieKey(a) THEN TieKey(b) - TieKey(a)
    ELSE localeCompare(a.name, b.name)

\* Insert x into the sorted sequence s behind every element that does not
\* compare greater than x (what a stable sort does with the last element)
InsertStable(s, x) ==
    LET k == Cardinality({i \in 1..Len(s) : Compare(s[i], x) <= 0})
    IN  SubSeq(s, 1, k) \o <<x>> \o SubSeq(s, k + 1, Len(s))

RECURSIVE StableSort(_)
StableSort(s) ==
    IF s = <<>> THEN <<>>
    ELSE InsertStable(StableSort(SubSeq(s, 1, Len(s) - 1)), s[Len(s)])

\* [...list].sort(comparator): Array.prototype.sort is stable
sortByInit(list) == StableSort(list)

IsVisible(c) == ~c.hidden
IsTracked(c) == c.team # "PC" /\ c.hp # Null

----------------------------------------------------------------------------
(* Component state *)

Combatant(id, name, team, hp, maxHp, init, notes) ==
    [id |-> id, name |-> name, team |-> team,
     hp |-> IF team = "PC" THEN Null ELSE hp,
     maxHp |-> IF team = "PC" THEN Null ELSE maxHp,
     init |-> init, tie |-> Null, hidden |-> FALSE, notes |-> notes,
     down |-> IF team = "PC" THEN FALSE ELSE hp <= 0,
     removedAt |-> NoTime]

\* useState(null) of toast; the undo closure is the record of the values it
\* captured, kind names the handler that made it.  With the toast go the
\* timeouts of setTimeout that are pending, each the seconds left to it, and
\* ref, the one toastTimerRef.current names (Null when it names none that is
\* pending)
NoToast == [kind |-> "none", combatants |-> <<>>, graveyard |-> <<>>,
            activeId |-> Null, round |-> 1, timers |-> {}, ref |-> Null]

\* last.pre when the handler had no target in the roster
NoPre == [id |-> Null]

NoLast == [op |-> "init", id |-> Null, arg |-> Null, pre |-> NoPre]

\* rolling while no call of rollTies is under way
NotRolling == [pc |-> "idle", groups |-> <<>>, used |-> {}, roll |-> Null,
               updates |-> <<>>]

\* movedAt while the times of the moves are not followed, and when they
\* begin to be
NoTimes == [on |-> FALSE, at |-> <<>>]
FirstTimes == [on |-> TRUE, at |-> <<>>]

Ids(list) == {list[i].id : i \in 1..Len(list)}

\* list.find((c) => c.id === id); only used where the id is present
Find(list, id) == list[CHOOSE i \in 1..Len(list) : list[i].id = id]

\* list.filter((c) => c.id !== id)
Without(list, id) == SelectSeq(list, LAMBDA c : c.id # id)

\* list.filter((c) => !c.hidden)
Visible(list) == SelectSeq(list, IsVisible)

\* { ...c, ...patch }
Patched(c, patch) ==
    [k \in DOMAIN c |-> IF k \in DOMAIN patch THEN patch[k] ELSE c[k]]

\* prev.map((c) => (c.id === id ? new : c)), new computed from that c
MapAt(list, id, new) ==
    [i \in 1..Len(list) |-> IF list[i].id = id THEN new ELSE list[i]]

\* Derived values of the render
sorted == sortByInit(combatants)
\* The navigation list without the hidden filter
VisibleWithHidden == sorted

visible == Visible(sorted)
listForDisplay == IF settings.showHidden THEN sorted ELSE visible

\* visible.findIndex((c) => c.id === activeId), 0-based, -1 when absent
activeIndex ==
    IF \E i \in 1..Len(visible) : visible[i].id = activeId
    THEN (CHOOSE i \in 1..Len(visible) : visible[i].id = activeId) - 1
    ELSE -1

\* ensureActiveValid that keeps the current id without looking at the list
EnsureActiveKeep(list) == activeId

\* ensureActiveValid(list): the value activeId has after the call
ensureActiveValid(list) ==
    LET vis == Visible(list)
    IN  IF \E i \in 1..Len(vis) : vis[i].id = activeId THEN activeId
        ELSE IF Len(vis) > 0 THEN vis[1].id ELSE Null

\* showToast without the clearTimeout of the timer that is running
ShowToastKeepsTimer(kind, c, g, a, r) ==
    [kind |-> kind, combatants |-> c, graveyard |-> g, activeId |-> a, round |-> r,
     timers |-> toast.timers \cup {ToastSeconds}, ref |-> ToastSeconds]

\* showToast(message, undo): the new toast; the timeout toastTimerRef names
\* is cleared and one of 5 s is set
showToast(kind, c, g, a, r) ==
    [kind |-> kind, combatants |-> c, graveyard |-> g, activeId |-> a, round |-> r,
     timers |-> (toast.timers \ {toast.ref}) \cup {ToastSeconds},
     ref |-> ToastSeconds]

Init ==
    /\ combatants = <<>>
    /\ graveyard = <<>>
    /\ activeId = Null
    /\ round = 1
    /\ settings = [autoGraveyard |-> TRUE, showHidden |-> FALSE]
    /\ toast = NoToast
    /\ nextId = 1
    /\ hpOps = 0
    /\ toastAge = 0
    /\ shownFor = 0
    /\ last = NoLast
    /\ deleted = {}
    /\ movedAt = NoTimes
    /\ rolling = NotRolling
    /\ sortInput = <<>>
    /\ sortOutput = <<>>

----------------------------------------------------------------------------
(* Handlers *)

addCombatant(name, team, hp, maxHp, init) ==
    /\ LET c == Combatant(nextId, name, team, hp, maxHp, init, 0)
           next == combatants \o <<c>>
           first == sortByInit(Visible(next))
       IN  /\ combatants' = next
           /\ activeId' = IF activeId = Null
                          THEN (IF Len(first) > 0 THEN first[1].id ELSE nextId)
                          ELSE activeId
           /\ toast' = showToast("add", combatants, <<>>, activeId, 1)
    /\ nextId' = nextId + 1
    /\ UNCHANGED <<graveyard, round, settings, hpOps, sortInput, sortOutput>>

updateCombatant(id, patch) ==
    /\ id \in Ids(combatants)
    /\ LET next == MapAt(combatants, id, Patched(Find(combatants, id), patch))
       IN  /\ combatants' = next
           /\ activeId' = ensureActiveValid(next)
    /\ UNCHANGED <<graveyard, round, settings, toast, nextId, hpOps,
                   sortInput, sortOutput>>

\* RowActions "Mark Down" / "Mark Up": updateCombatant(c.id, { down: !c.down })
toggleDown(id) ==
    updateCombatant(id, [down |-> ~Find(combatants, id).down])

\* RowActions "Hide" / "Unhide": updateCombatant(c.id, { hidden: !c.hidden })
toggleHidden(id) ==
    updateCombatant(id, [hidden |-> ~Find(combatants, id).hidden])

\* EditableText Save: updateCombatant(c.id, { notes: v })
editNotes(id, v) ==
    updateCombatant(id, [notes |-> v])

\* moveToGraveyard that puts the snapshot behind the earlier entries
MoveToGraveyardAppend(id) ==
    /\ id \in Ids(combatants)
    /\ LET t == Find(combatants, id)
           remaining == Without(combatants, id)
       IN  /\ graveyard' = graveyard \o <<[t EXCEPT !.removedAt = Stamp]>>
           /\ activeId' = ensureActiveValid(remaining)
           /\ combatants' = remaining
    /\ toast' = showToast("move", combatants, graveyard, activeId, round)
    /\ UNCHANGED <<round, settings, nextId, hpOps, sortInput, sortOutput>>

\* moveToGraveyard(id); for an id that is not in the roster the updater
\* returns prev and no toast is shown
moveToGraveyard(id) ==
    /\ IF id \in Ids(combatants)
       THEN /\ LET t == Find(combatants, id)
                   remaining == Without(combatants, id)
               IN  /\ graveyard' = <<[t EXCEPT !.removedAt = Stamp]>> \o graveyard
                   /\ activeId' = ensureActiveValid(remaining)
                   /\ combatants' = remaining
            /\ toast' = showToast("move", combatants, graveyard, activeId, round)
       ELSE UNCHANGED <<combatants, graveyard, activeId, toast>>
    /\ UNCHANGED <<round, settings, nextId, hpOps, sortInput, sortOutput>>

\* delete-forever that removes the head of the graveyard, whatever the id
DeleteForeverHead(id) ==
    /\ id \in Ids(graveyard)
    /\ graveyard' = Tail(graveyard)
    /\ toast' = showToast("delete", <<>>, graveyard, Null, 1)
    /\ UNCHANGED <<combatants, activeId, round, settings, nextId, hpOps,
                   sortInput, sortOutput>>

\* deleteForeverConfirmed(id); the toast is shown whether or not the id is
\* in the graveyard
deleteForeverConfirmed(id) ==
    /\ graveyard' = Without(graveyard, id)
    /\ toast' = showToast("delete", <<>>, graveyard, Null, 1)
    /\ UNCHANGED <<combatants, activeId, round, settings, nextId, hpOps,
                   sortInput, sortOutput>>

\* restore that leaves the entry in the graveyard: a copy, not a move
RestoreKeepsEntry(id) ==
    /\ id \in Ids(graveyard)
    /\ LET target == Find(graveyard, id)
           next == sortByInit(<<target>> \o combatants)
       IN  /\ combatants' = next
           /\ activeId' = ensureActiveValid(next)
    /\ graveyard' = graveyard
    /\ toast' = showToast("restore", combatants, graveyard, Null, 1)
    /\ UNCHANGED <<round, settings, nextId, hpOps, sortInput, sortOutput>>

\* restore that brings the combatant back at full hp
RestoreResetsHp(id) ==
    /\ id \in Ids(graveyard)
    /\ LET t == Find(graveyard, id)
           target == IF t.hp = Null THEN t
                     ELSE [t EXCEPT !.hp = t.maxHp, !.down = t.maxHp <= 0]
           next == sortByInit(<<target>> \o combatants)
       IN  /\ combatants' = next
           /\ activeId' = ensureActiveValid(next)
    /\ graveyard' = Without(graveyard, id)
    /\ toast' = showToast("restore", combatants, graveyard, Null, 1)
    /\ UNCHANGED <<round, settings, nextId, hpOps, sortInput, sortOutput>>

\* restoreFromGraveyard(id); for an id that is not in the graveyard only
\* the filtered graveyard, equal to the old one, is stored
restoreFromGraveyard(id) ==
    /\ IF id \in Ids(graveyard)
       THEN /\ LET target == Find(graveyard, id)
                   next == sortByInit(<<target>> \o combatants)
               IN  /\ combatants' = next
                   /\ activeId' = ensureActiveValid(next)
            /\ toast' = showToast("restore", combatants, graveyard, Null, 1)
       ELSE UNCHANGED <<combatants, activeId, toast>>
    /\ graveyard' = Without(graveyard, id)
    /\ UNCHANGED <<round, settings, nextId, hpOps, sortInput, sortOutput>>

clearAll ==
    /\ combatants' = <<>>
    /\ activeId' = Null
    /\ round' = 1
    /\ toast' = showToast("clearAll", combatants, <<>>, activeId, round)
    /\ UNCHANGED <<graveyard, settings, nextId, hpOps, sortInput, sortOutput>>

clearGraveyardConfirmed ==
    /\ graveyard' = <<>>
    /\ toast' = showToast("clearGraveyard", <<>>, graveyard, Null, 1)
    /\ UNCHANGED <<combatants, activeId, round, settings, nextId, hpOps,
                   sortInput, sortOutput>>

----------------------------------------------------------------------------
(* HP changes with auto-graveyard *)

\* applyDamagePure that trusts the sign of amount
ApplyDamageSigned(c, amount) ==
    LET newHp == clamp(c.hp - amount, HpFloor, c.maxHp)
    IN  [c EXCEPT !.hp = newHp, !.down = newHp <= 0]

applyDamagePure(c, amount) ==
    LET newHp == clamp(c.hp - Abs(amount), HpFloor, c.maxHp)
    IN  [c EXCEPT !.hp = newHp, !.down = newHp <= 0]

\* applyHealPure without the ceiling
ApplyHealNoCeiling(c, amount) ==
    LET newHp == Max2(HpFloor, c.hp + Abs(amount))
    IN  [c EXCEPT !.hp = newHp, !.down = newHp <= 0]

applyHealPure(c, amount) ==
    LET newHp == clamp(c.hp + Abs(amount), HpFloor, c.maxHp)
    IN  [c EXCEPT !.hp = newHp, !.down = newHp <= 0]

\* The map callback of setExactHp that adds the value to the previous hp
SetExactRelative(c, val) ==
    LET hpVal == clamp(c.hp + val, HpFloor, c.maxHp)
    IN  [c EXCEPT !.hp = hpVal, !.down = hpVal <= 0]

\* The map callback of setExactHp that leaves the down flag alone
SetExactKeepDown(c, val) ==
    LET hpVal == clamp(val, HpFloor, c.maxHp)
    IN  [c EXCEPT !.hp = hpVal]

\* The map callback of setExactHp for the targeted, HP-tracked combatant
setExactPure(c, val) ==
    LET hpVal == clamp(val, HpFloor, c.maxHp)
    IN  [c EXCEPT !.hp = hpVal, !.down = hpVal <= 0]

\* c.team !== "PC" && typeof c.hp === "number" && c.hp <= 0
IsDead(c) == c.team # "PC" /\ c.hp # Null /\ c.hp <= 0
NotDead(c) == ~IsDead(c)

\* autoGrave that moves only the first dead combatant
AutoGraveFirstOnly(next) ==
    LET toMove == SelectSeq(next, IsDead)
    IN  IF ~settings.autoGraveyard \/ Len(toMove) = 0
        THEN [combatants |-> next, graveyard |-> graveyard,
              activeId |-> activeId, toast |-> toast, moved |-> FALSE]
        ELSE LET remaining == Without(next, toMove[1].id)
             IN  [combatants |-> remaining,
                  graveyard |-> <<[toMove[1] EXCEPT !.removedAt = Stamp]>> \o graveyard,
                  activeId |-> ensureActiveValid(remaining),
                  toast |-> showToast("auto", <<>>, graveyard, Null, 1),
                  moved |-> TRUE]

\* autoGrave that scans whether or not the setting is enabled
AutoGraveIgnoresSetting(next) ==
    LET toMove == SelectSeq(next, IsDead)
    IN  IF Len(toMove) = 0
        THEN [combatants |-> next, graveyard |-> graveyard,
              activeId |-> activeId, toast |-> toast, moved |-> FALSE]
        ELSE LET remaining == SelectSeq(next, NotDead)
             IN  [combatants |-> remaining,
                  graveyard |->
                      [i \in 1..Len(toMove) |-> [toMove[i] EXCEPT !.removedAt = Stamp]]
                          \o graveyard,
                  activeId |-> ensureActiveValid(remaining),
                  toast |-> showToast("auto", <<>>, graveyard, Null, 1),
                  moved |-> TRUE]

\* autoGrave(next): the list it returns and the values graveyard, activeId
\* and toast have after the call
autoGrave(next) ==
    LET toMove == SelectSeq(next, IsDead)
    IN  IF ~settings.autoGraveyard \/ Len(toMove) = 0
        THEN [combatants |-> next, graveyard |-> graveyard,
              activeId |-> activeId, toast |-> toast, moved |-> FALSE]
        ELSE LET remaining == SelectSeq(next, NotDead)
             IN  [combatants |-> remaining,
                  graveyard |->
                      [i \in 1..Len(toMove) |-> [toMove[i] EXCEPT !.removedAt = Stamp]]
                          \o graveyard,
                  activeId |-> ensureActiveValid(remaining),
                  toast |-> showToast("auto", <<>>, graveyard, Null, 1),
                  moved |-> TRUE]

\* The state after setCombatants((prev) => autoGrave(mapped))
CommitAutoGrave(mapped) ==
    LET after == autoGrave(mapped)
    IN  /\ combatants' = after.combatants
        /\ graveyard' = after.graveyard
        /\ activeId' = after.activeId
        /\ toast' = after.toast

applyDamage(id, amount) ==
    /\ CommitAutoGrave(MapAt(combatants, id,
           LET c == Find(combatants, id)
           IN  IF c.team = "PC" \/ c.hp = Null THEN c
               ELSE applyDamagePure(c, amount)))
    /\ UNCHANGED <<round, settings, nextId, sortInput, sortOutput>>

applyHeal(id, amount) ==
    /\ combatants' = MapAt(combatants, id,
           LET c == Find(combatants, id)
           IN  IF c.team = "PC" \/ c.hp = Null THEN c
               ELSE applyHealPure(c, amount))
    /\ UNCHANGED <<graveyard, activeId, round, settings, toast, nextId,
                   sortInput, sortOutput>>

setExactHp(id, value) ==
    /\ CommitAutoGrave(MapAt(combatants, id,
           LET c == Find(combatants, id)
           IN  IF c.team = "PC" \/ c.hp = Null THEN c
               ELSE setExactPure(c, value)))
    /\ UNCHANGED <<round, settings, nextId, sortInput, sortOutput>>

----------------------------------------------------------------------------
(* Roll-off tiebreakers.  The text of the tie field is the number it parses  *)
(* to in tenths (25 is "2.5"), Null for the empty field and NotNumber for a  *)
(* text Number() turns into NaN                                              *)

\* Math.round of a number given in tenths: the nearest integer, halves up
MathRound(tenths) == (tenths + 5) \div 10

\* setTie that truncates instead of rounding
SetTieTruncates(id, value) ==
    /\ LET v == IF value = Null \/ value = NotNumber THEN Null
                ELSE clamp(value \div 10, TieMin, TieMax)
       IN  combatants' = MapAt(combatants, id, [Find(combatants, id) EXCEPT !.tie = v])
    /\ UNCHANGED <<graveyard, activeId, round, settings, toast, nextId, hpOps,
                   sortInput, sortOutput>>

setTie(id, value) ==
    /\ LET v == IF value = Null \/ value = NotNumber THEN Null
                ELSE clamp(MathRound(value), TieMin, TieMax)
       IN  combatants' = MapAt(combatants, id, [Find(combatants, id) EXCEPT !.tie = v])
    /\ UNCHANGED <<graveyard, activeId, round, settings, toast, nextId, hpOps,
                   sortInput, sortOutput>>

\* The ids of the groups of size > 1 that rollTies builds by init
Tied(list) ==
    {list[i].id : i \in {k \in 1..Len(list) :
                            \E j \in 1..Len(list) : j # k /\ list[j].init = list[k].init}}

\* rollTies that takes every roll as it comes, repeated or not
RollTiesRepeating(rolls) ==
    /\ DOMAIN rolls = Tied(combatants)
    /\ combatants' = [i \in 1..Len(combatants) |->
                          IF combatants[i].id \in Tied(combatants)
                          THEN [combatants[i] EXCEPT !.tie = rolls[combatants[i].id]]
                          ELSE combatants[i]]
    /\ UNCHANGED <<graveyard, activeId, round, settings, toast, nextId, hpOps,
                   sortInput, sortOutput>>

\* rollTies, rolls[id] the roll of rollD20 that the loop accepted for id: one
\* not yet used in the group of id, so no two ids of one init have one roll
rollTies(rolls) ==
    /\ DOMAIN rolls = Tied(combatants)
    /\ Cardinality({<<Find(combatants, a).init, rolls[a]>> : a \in Tied(combatants)})
           = Cardinality(Tied(combatants))
    /\ combatants' = [i \in 1..Len(combatants) |->
                          IF combatants[i].id \in Tied(combatants)
                          THEN [combatants[i] EXCEPT !.tie = rolls[combatants[i].id]]
                          ELSE combatants[i]]
    /\ UNCHANGED <<graveyard, activeId, round, settings, toast, nextId, hpOps,
                   sortInput, sortOutput>>

clearTies ==
    /\ combatants' = [i \in 1..Len(combatants) |->
                          IF combatants[i].tie # Null
                          THEN [combatants[i] EXCEPT !.tie = Null]
                          ELSE combatants[i]]
    /\ UNCHANGED <<graveyard, activeId, round, settings, toast, nextId, hpOps,
                   sortInput, sortOutput>>

----------------------------------------------------------------------------
(* The loop of rollTies, one step per roll.  rolling.groups are the groups   *)
(* of size > 1 still to be served, the head of the first group being the     *)
(* combatant c the loop is at; used and updates are the variables of that    *)
(* name, roll the value rollD20 returned last.  No other handler runs while  *)
(* the updater is running.                                                   *)

\* The values rollD20 returns: Math.floor(Math.random() * 20) + 1
Die == 1..DieSides

\* The k lowest values of a set of numbers
Lowest(k, S) == {v \in S : Cardinality({w \in S : w < v}) < k}

\* The returns of rollD20 the model follows when used holds the values taken:
\* the MaxFresh lowest that are not taken and the MaxStale lowest that are
Draws(used) == Lowest(MaxFresh, Die \ used) \cup Lowest(MaxStale, Die \cap used)

\* The keys of byInit in the order the Map holds them: first occurrence
RECURSIVE InitsInOrder(_)
InitsInOrder(list) ==
    IF list = <<>> THEN <<>>
    ELSE LET front == InitsInOrder(SubSeq(list, 1, Len(list) - 1))
             key == list[Len(list)].init
         IN  IF \E i \in 1..Len(front) : front[i] = key THEN front
             ELSE Append(front, key)

\* byInit.get(key) as the ids of its combatants, in roster order
GroupOf(list, key) ==
    LET members == SelectSeq(list, LAMBDA c : c.init = key)
    IN  [i \in 1..Len(members) |-> members[i].id]

\* The groups the outer loop does not skip: those of more than one combatant
TiedGroups(list) ==
    LET keys == InitsInOrder(list)
        all == [i \in 1..Len(keys) |-> GroupOf(list, keys[i])]
    IN  SelectSeq(all, LAMBDA g : Len(g) > 1)

\* Roll Ties is pressed: the updater builds the groups and, when there is a
\* group to serve, rolls for its first combatant; when there is none it
\* returns the roster as it is
rollTiesStart ==
    /\ rolling.pc = "idle"
    /\ IF TiedGroups(combatants) = <<>>
       THEN rollTies(<<>>) /\ rolling' = rolling
       ELSE /\ \E r \in Draws({}) :
                   rolling' = [pc |-> "while", groups |-> TiedGroups(combatants),
                               used |-> {}, roll |-> r, updates |-> <<>>]
            /\ UNCHANGED <<combatants, graveyard, activeId, round, settings,
                           toast, nextId, hpOps, sortInput, sortOutput>>

\* while (used.has(roll)) roll = rollD20(): the roll is taken, roll again
rollTiesRetry ==
    /\ rolling.pc = "while"
    /\ rolling.roll \in rolling.used
    /\ \E r \in Draws(rolling.used) : rolling' = [rolling EXCEPT !.roll = r]
    /\ UNCHANGED <<combatants, graveyard, activeId, round, settings, toast,
                   nextId, hpOps, sortInput, sortOutput>>

\* The roll is not taken: used.add(roll); updates.set(c.id, roll); then the
\* first roll for the next combatant of the group, or of the next group with
\* a new used; after the last group the updater returns the mapped roster
rollTiesAccept ==
    /\ rolling.pc = "while"
    /\ rolling.roll \notin rolling.used
    /\ LET group == rolling.groups[1]
           updates == (group[1] :> rolling.roll) @@ rolling.updates
           used == rolling.used \cup {rolling.roll}
       IN  IF Len(group) > 1
           THEN /\ \E r \in Draws(used) :
                       rolling' = [pc |-> "while",
                                   groups |-> <<Tail(group)>> \o Tail(rolling.groups),
                                   used |-> used, roll |-> r, updates |-> updates]
                /\ UNCHANGED <<combatants, graveyard, activeId, round, settings,
                               toast, nextId, hpOps, sortInput, sortOutput>>
           ELSE IF Len(rolling.groups) > 1
           THEN /\ \E r \in Draws({}) :
                       rolling' = [pc |-> "while", groups |-> Tail(rolling.groups),
                                   used |-> {}, roll |-> r, updates |-> updates]
                /\ UNCHANGED <<combatants, graveyard, activeId, round, settings,
                               toast, nextId, hpOps, sortInput, sortOutput>>
           ELSE /\ rollTies(updates)
                /\ rolling' = NotRolling

----------------------------------------------------------------------------
(* Turn navigation, row selection, settings, undo toast *)

\* nextTurn that compares idx with the length, not with the last index
NextTurnOffByOne ==
    /\ Len(visible) > 0
    /\ LET idx == Max2(0, activeIndex)
       IN  /\ idx = Len(visible) => round < MaxRound
           /\ round' = IF idx = Len(visible) THEN round + 1 ELSE round
           /\ activeId' = visible[((idx + 1) % Len(visible)) + 1].id
    /\ UNCHANGED <<combatants, graveyard, settings, toast, nextId, hpOps,
                   sortInput, sortOutput>>

nextTurn ==
    /\ Len(visible) > 0
    /\ LET idx == Max2(0, activeIndex)
       IN  /\ idx = Len(visible) - 1 => round < MaxRound
           /\ round' = IF idx = Len(visible) - 1 THEN round + 1 ELSE round
           /\ activeId' = visible[((idx + 1) % Len(visible)) + 1].id
    /\ UNCHANGED <<combatants, graveyard, settings, toast, nextId, hpOps,
                   sortInput, sortOutput>>

\* prevTurn that leaves the round alone
PrevTurnKeepsRound ==
    /\ Len(visible) > 0
    /\ LET idx == Max2(0, activeIndex)
       IN  /\ round' = round
           /\ activeId' = visible[((idx - 1 + Len(visible)) % Len(visible)) + 1].id
    /\ UNCHANGED <<combatants, graveyard, settings, toast, nextId, hpOps,
                   sortInput, sortOutput>>

prevTurn ==
    /\ Len(visible) > 0
    /\ LET idx == Max2(0, activeIndex)
       IN  /\ round' = IF idx = 0 THEN Max2(1, round - 1) ELSE round
           /\ activeId' = visible[((idx - 1 + Len(visible)) % Len(visible)) + 1].id
    /\ UNCHANGED <<combatants, graveyard, settings, toast, nextId, hpOps,
                   sortInput, sortOutput>>

startEncounter ==
    /\ Len(visible) > 0
    /\ round' = 1
    /\ activeId' = visible[1].id
    /\ UNCHANGED <<combatants, graveyard, settings, toast, nextId, hpOps,
                   sortInput, sortOutput>>

\* <tr onClick={() => setActiveId(c.id)}> of a row of listForDisplay
rowClick(id) ==
    /\ id \in Ids(listForDisplay)
    /\ activeId' = id
    /\ UNCHANGED <<combatants, graveyard, round, settings, toast, nextId,
                   hpOps, sortInput, sortOutput>>

toggleAutoGraveyard ==
    /\ settings' = [settings EXCEPT !.autoGraveyard = ~settings.autoGraveyard]
    /\ UNCHANGED <<combatants, graveyard, activeId, round, toast, nextId,
                   hpOps, sortInput, sortOutput>>

toggleShowHidden ==
    /\ settings' = [settings EXCEPT !.showHidden = ~settings.showHidden]
    /\ UNCHANGED <<combatants, graveyard, activeId, round, toast, nextId,
                   hpOps, sortInput, sortOutput>>

\* What the undo closure of the toast sets the four slices to
UndoCombatants ==
    IF toast.kind \in {"add", "move", "restore", "clearAll"}
    THEN toast.combatants ELSE combatants
UndoGraveyard ==
    IF toast.kind \in {"move", "delete", "restore", "auto", "clearGraveyard"}
    THEN toast.graveyard ELSE graveyard
UndoActiveId ==
    IF toast.kind \in {"add", "move", "clearAll"} THEN toast.activeId ELSE activeId
UndoRound ==
    IF toast.kind \in {"move", "clearAll"} THEN toast.round ELSE round

\* The Undo button that runs toast.undo() and leaves the toast showing
UndoKeepsToast ==
    /\ toast.kind # "none"
    /\ combatants' = UndoCombatants
    /\ graveyard' = UndoGraveyard
    /\ activeId' = UndoActiveId
    /\ round' = UndoRound
    /\ toast' = toast
    /\ UNCHANGED <<settings, nextId, hpOps, sortInput, sortOutput>>

\* The Undo button of the toast: toast.undo(); hideToast()
undo ==
    /\ toast.kind # "none"
    /\ combatants' = UndoCombatants
    /\ graveyard' = UndoGraveyard
    /\ activeId' = UndoActiveId
    /\ round' = UndoRound
    /\ toast' = [NoToast EXCEPT !.timers = toast.timers \ {toast.ref}]
    /\ UNCHANGED <<settings, nextId, hpOps, sortInput, sortOutput>>

\* The toast's dismiss button: hideToast clears the timeout and the toast.
\* Where no time passes it also stands for the timeout's setToast(null)
hideToast ==
    /\ toast.kind # "none"
    /\ toast' = [NoToast EXCEPT !.timers = toast.timers \ {toast.ref}]
    /\ UNCHANGED <<combatants, graveyard, activeId, round, settings, nextId,
                   hpOps, sortInput, sortOutput>>

\* One second passes while a timeout is pending; a timeout that has 1 s left
\* runs its callback, setToast(null)
tick ==
    /\ toast.timers # {}
    /\ LET pending == {t - 1 : t \in toast.timers} \ {0}
           ref == IF toast.ref = Null \/ toast.ref = 1 THEN Null ELSE toast.ref - 1
       IN  toast' = IF 1 \in toast.timers
                    THEN [NoToast EXCEPT !.timers = pending, !.ref = ref]
                    ELSE [toast EXCEPT !.timers = pending, !.ref = ref]
    /\ UNCHANGED <<combatants, graveyard, activeId, round, settings, nextId,
                   hpOps, sortInput, sortOutput>>

----------------------------------------------------------------------------
(* Persistence.  Each of the five slices is written to its localStorage key  *)
(* by an effect after every change, so between handlers the key holds the    *)
(* JSON text of the slice.  What getItem returns at the next page load is a  *)
(* record: text "json" with the value the text parses to, "garbage" for a    *)
(* text JSON.parse throws on, "empty" for the empty string and "missing"     *)
(* for null.                                                                 *)

StoredKeys == {"settings", "combatants", "graveyard", "activeId", "round"}

\* JSON.stringify(v) as localStorage.setItem stores it; JSON.parse gives v
\* back for every value of the model (finite numbers, strings, booleans,
\* null, arrays and plain objects of these)
Stringify(v) == [text |-> "json", value |-> v]

DefaultSettings == [autoGraveyard |-> TRUE, showHidden |-> FALSE]

\* A useState initialiser: try { raw = getItem(key); if (raw) return
\* JSON.parse(raw) } catch {} return default
LoadKey(raw, default) ==
    IF raw.text \in {"missing", "empty"} THEN default
    ELSE IF raw.text = "garbage" THEN default
    ELSE raw.value

\* What getItem returns for a key that holds stored when the key was lost
\* ("missing"), emptied ("empty") or overwritten with text that is no JSON
\* ("garbage") since the page wrote it, or was left alone ("keep")
RawOf(stored, damage) ==
    IF damage = "keep" THEN Stringify(stored)
    ELSE [text |-> damage, value |-> Null]

\* A page load that gives up every key when one of them cannot be read
ReloadAllOrNothing(damage) ==
    /\ LET ok == \A k \in StoredKeys : damage[k] = "keep"
       IN  /\ settings' = IF ok THEN settings ELSE DefaultSettings
           /\ combatants' = IF ok THEN combatants ELSE <<>>
           /\ graveyard' = IF ok THEN graveyard ELSE <<>>
           /\ activeId' = IF ok THEN activeId ELSE Null
           /\ round' = IF ok THEN round ELSE 1
    /\ toast' = NoToast
    /\ UNCHANGED <<nextId, hpOps, sortInput, sortOutput>>

\* The page is loaded again: the five useState initialisers run on what
\* localStorage holds, damage[k] saying what became of key k; the toast and
\* its timeouts are not persisted
reload(damage) ==
    /\ settings' = LoadKey(RawOf(settings, damage["settings"]), DefaultSettings)
    /\ combatants' = LoadKey(RawOf(combatants, damage["combatants"]), <<>>)
    /\ graveyard' = LoadKey(RawOf(graveyard, damage["graveyard"]), <<>>)
    /\ activeId' = LoadKey(RawOf(activeId, damage["activeId"]), Null)
    /\ round' = LoadKey(RawOf(round, damage["round"]), 1)
    /\ toast' = NoToast
    /\ UNCHANGED <<nextId, hpOps, sortInput, sortOutput>>

----------------------------------------------------------------------------
(* Specifications, one per feature of the component *)

\* The times in f as ranks 1, 2, ..., their order kept
Dense(f) ==
    [i \in DOMAIN f |-> Cardinality({f[j] : j \in {k \in DOMAIN f : f[k] <= f[i]}})]

\* movedAt after a handler that moved the ids of entered to the graveyard:
\* they get a time later than every time on record, the Date.now() their
\* removedAt is set to; the times are kept of the ids in the graveyard and
\* in the graveyard the undo closure holds
Timed(entered, kept) ==
    LET times == {movedAt.at[i] : i \in DOMAIN movedAt.at}
        later == 1 + Cardinality(times)
    IN  [on |-> TRUE,
         at |-> Dense([i \in kept |-> IF i \in entered THEN later
                                      ELSE movedAt.at[i]])]

\* History, not program state: the handler that ran last with its arguments
\* and the targeted combatant as it was before, the ids that delete-forever
\* removed and whose delete was not undone, and the number of handlers
\* that ran while the present toast was showing; the 5 s timer lets at most
\* MaxToastAge of them run before it clears the toast; the seconds that
\* passed since showToast was last called; and, where a specification
\* follows them, the order in time of the moves to the graveyard
Did(op, id, arg) ==
    /\ rolling' = rolling
    /\ movedAt' = IF ~movedAt.on THEN movedAt
                  ELSE Timed(IF op \in {"move", "damage", "setExact"}
                             THEN Ids(graveyard') \ Ids(graveyard) ELSE {},
                             Ids(graveyard') \cup Ids(toast'.graveyard))
    /\ shownFor' = IF op = "tick" THEN shownFor + 1
                   ELSE IF \/ op \in {"add", "delete", "clearAll", "clearGraveyard"}
                           \/ op \in {"move", "restore", "damage", "setExact"}
                                  /\ toast' # toast
                        THEN 0 ELSE shownFor
    /\ last' = [op |-> op, id |-> id, arg |-> arg,
                pre |-> IF id \in Ids(combatants) THEN Find(combatants, id) ELSE NoPre]
    /\ deleted' = IF op = "delete" THEN deleted \cup ({id} \cap Ids(graveyard))
                  ELSE IF op = "undo" /\ toast.kind = "delete"
                       THEN deleted \ Ids(toast.graveyard)
                       ELSE deleted
    /\ (toast' = toast /\ toast.kind # "none") => toastAge < MaxToastAge
    /\ toastAge' = IF toast' = toast /\ toast.kind # "none" THEN toastAge + 1 ELSE 0

\* What the add form holds when Add is pressed: <<name, team, hp, maxHp, init>>
AddForms == {<<1, "PC", 30, 30, 2>>, <<1, "Enemy", 1, 1, 1>>}
\* The amount field of RowActions (at least 1) and the HP field of a row
Amounts == {20000}
ExactValues == {-20000}

NonPcIds == {combatants[i].id : i \in {j \in 1..Len(combatants) : combatants[j].team # "PC"}}

\* Graveyard life cycle with the undo toast: every handler that changes which
\* combatants are in the roster or in the graveyard
NextGrave ==
    \/ \E f \in AddForms :
          /\ nextId <= MaxIds
          /\ addCombatant(f[1], f[2], f[3], f[4], f[5])
          /\ Did("add", Null, Null)
    \/ \E id \in Ids(combatants) : moveToGraveyard(id) /\ Did("move", Null, Null)
    \/ \E id \in Ids(graveyard) : restoreFromGraveyard(id) /\ Did("restore", Null, Null)
    \/ \E id \in Ids(graveyard) :
          deleteForeverConfirmed(id) /\ Did("delete", id, Null)
    \/ clearGraveyardConfirmed /\ Did("clearGraveyard", Null, Null)
    \/ clearAll /\ Did("clearAll", Null, Null)
    \/ \E id \in NonPcIds, a \in Amounts :
          applyDamage(id, a) /\ Did("damage", Null, Null) /\ UNCHANGED hpOps
    \/ \E id \in NonPcIds, a \in Amounts :
          applyHeal(id, a) /\ Did("heal", Null, Null) /\ UNCHANGED hpOps
    \/ \E id \in NonPcIds, v \in ExactValues :
          setExactHp(id, v) /\ Did("setExact", Null, Null) /\ UNCHANGED hpOps
    \/ nextTurn /\ Did("nextTurn", Null, Null)
    \/ toggleAutoGraveyard /\ Did("toggleAutoGraveyard", Null, Null)
    \/ undo /\ Did("undo", Null, Null)
    \/ hideToast /\ Did("hideToast", Null, Null)

SpecGrave == Init /\ [][NextGrave]_vars

\* The same life cycle with the times of the moves on record
InitTimes ==
    /\ combatants = <<>>
    /\ graveyard = <<>>
    /\ activeId = Null
    /\ round = 1
    /\ settings = [autoGraveyard |-> TRUE, showHidden |-> FALSE]
    /\ toast = NoToast
    /\ nextId = 1
    /\ hpOps = 0
    /\ toastAge = 0
    /\ shownFor = 0
    /\ last = NoLast
    /\ deleted = {}
    /\ movedAt = FirstTimes
    /\ rolling = NotRolling
    /\ sortInput = <<>>
    /\ sortOutput = <<>>

SpecGraveTimes == InitTimes /\ [][NextGrave]_vars

\* The active pointer: hiding, row selection, turn navigation and the moves
\* between roster and graveyard; the buttons of a row exist for the rows of
\* listForDisplay
NextActive ==
    \/ \E f \in AddForms :
          /\ nextId <= MaxIds
          /\ addCombatant(f[1], f[2], f[3], f[4], f[5])
          /\ Did("add", Null, Null)
    \/ \E id \in Ids(listForDisplay) : toggleHidden(id) /\ Did("toggleHidden", Null, Null)
    \/ \E id \in Ids(listForDisplay) : moveToGraveyard(id) /\ Did("move", Null, Null)
    \/ \E id \in Ids(graveyard) : restoreFromGraveyard(id) /\ Did("restore", Null, Null)
    \/ nextTurn /\ Did("nextTurn", Null, Null)
    \/ prevTurn /\ Did("prevTurn", Null, Null)
    \/ startEncounter /\ Did("startEncounter", Null, Null)
    \/ \E id \in Ids(listForDisplay) : rowClick(id) /\ Did("rowClick", Null, Null)
    \/ toggleShowHidden /\ Did("toggleShowHidden", Null, Null)
    \/ hideToast /\ Did("hideToast", Null, Null)

SpecActive == Init /\ [][NextActive]_vars

\* The way to the graveyard and back: manual move and auto-graveyard of
\* combatants that may be hidden or marked down, then restore, with at most
\* MaxRestoreIds combatants
NextRestore ==
    \/ \E f \in AddForms :
          /\ nextId <= MaxRestoreIds
          /\ addCombatant(f[1], f[2], f[3], f[4], f[5])
          /\ Did("add", Null, Null)
    \/ \E id \in Ids(listForDisplay) : toggleHidden(id) /\ Did("toggleHidden", Null, Null)
    \/ \E id \in Ids(listForDisplay) : toggleDown(id) /\ Did("toggleDown", Null, Null)
    \/ \E id \in Ids(listForDisplay) : moveToGraveyard(id) /\ Did("move", Null, Null)
    \/ \E id \in NonPcIds \cap Ids(listForDisplay), a \in Amounts :
          applyDamage(id, a) /\ Did("damage", Null, Null) /\ UNCHANGED hpOps
    \/ \E id \in Ids(graveyard) : restoreFromGraveyard(id) /\ Did("restore", Null, Null)
    \/ toggleShowHidden /\ Did("toggleShowHidden", Null, Null)
    \/ hideToast /\ Did("hideToast", Null, Null)

SpecRestore == Init /\ [][NextRestore]_vars

\* Tiebreakers: the tie field of a row, Roll Ties and Clear Ties on a roster
\* of at most MaxTieIds combatants
TieInputs == {Null, NotNumber, -25, 4, 25, 204, 205}
\* The rolls of rollD20 the model draws, of 1..20
D20Rolls == {1, 7, 20}

NextTies ==
    \/ \E f \in AddForms :
          /\ nextId <= MaxTieIds
          /\ addCombatant(f[1], f[2], f[3], f[4], f[5])
          /\ Did("add", Null, Null)
    \/ \E id \in Ids(listForDisplay), v \in TieInputs :
          setTie(id, v) /\ Did("setTie", id, v)
    \/ \E rolls \in [Tied(combatants) -> D20Rolls] :
          rollTies(rolls) /\ Did("rollTies", Null, Null)
    \/ clearTies /\ Did("clearTies", Null, Null)
    \/ \E id \in Ids(listForDisplay) : moveToGraveyard(id) /\ Did("move", Null, Null)
    \/ hideToast /\ Did("hideToast", Null, Null)

SpecTies == Init /\ [][NextTies]_vars

\* The handlers called with any id: one in the roster, one in the graveyard
\* or one that names nothing; the HP handlers only with an id that names a
\* Player or nothing in the roster
AnyIds == 1..(MaxAnyIds + 1)
AnyForms == {<<"PC", 30, 30>>, <<"Enemy", 3, 3>>, <<"Enemy", 0, 3>>}
NoHpTargets ==
    {id \in AnyIds : id \notin Ids(combatants) \/ Find(combatants, id).team = "PC"}

NextAnyId ==
    \/ \E f \in AnyForms :
          /\ nextId <= MaxAnyIds
          /\ addCombatant(1, f[1], f[2], f[3], 1)
          /\ Did("add", Null, Null)
    \/ toggleAutoGraveyard /\ Did("toggleAutoGraveyard", Null, Null)
    \/ \E id \in NoHpTargets, a \in Amounts :
          applyDamage(id, a) /\ Did("damage", id, Null) /\ UNCHANGED hpOps
    \/ \E id \in NoHpTargets, a \in Amounts :
          applyHeal(id, a) /\ Did("heal", id, Null) /\ UNCHANGED hpOps
    \/ \E id \in NoHpTargets, v \in ExactValues :
          setExactHp(id, v) /\ Did("setExact", id, Null) /\ UNCHANGED hpOps
    \/ \E id \in AnyIds : moveToGraveyard(id) /\ Did("move", id, Null)
    \/ \E id \in AnyIds : restoreFromGraveyard(id) /\ Did("restore", id, Null)
    \/ \E id \in AnyIds : deleteForeverConfirmed(id) /\ Did("delete", id, Null)
    \/ hideToast /\ Did("hideToast", Null, Null)

SpecAnyId == Init /\ [][NextAnyId]_vars

\* The undo toast in time: actions that show a toast, Undo, Dismiss and the
\* passing of seconds, on at most MaxToastIds combatants
NextToast ==
    \/ \E f \in AddForms :
          /\ nextId <= MaxToastIds
          /\ addCombatant(f[1], f[2], f[3], f[4], f[5])
          /\ Did("add", Null, Null)
    \/ \E id \in Ids(listForDisplay) : moveToGraveyard(id) /\ Did("move", Null, Null)
    \/ \E id \in Ids(graveyard) : restoreFromGraveyard(id) /\ Did("restore", Null, Null)
    \/ undo /\ Did("undo", Null, Null)
    \/ hideToast /\ Did("hideToast", Null, Null)
    \/ tick /\ Did("tick", Null, Null)

SpecToast == Init /\ [][NextToast]_vars

\* Page loads: a session on at most MaxLoadIds combatants that changes each
\* of the five persisted slices, and a reload after any damage to the keys
DamageKinds == {"keep", "missing", "empty", "garbage"}
Damages == [StoredKeys -> DamageKinds]

NextLoad ==
    \/ \E f \in AddForms :
          /\ nextId <= MaxLoadIds
          /\ addCombatant(f[1], f[2], f[3], f[4], f[5])
          /\ Did("add", Null, Null)
    \/ \E id \in Ids(listForDisplay) : moveToGraveyard(id) /\ Did("move", Null, Null)
    \/ nextTurn /\ Did("nextTurn", Null, Null)
    \/ toggleShowHidden /\ Did("toggleShowHidden", Null, Null)
    \/ \E d \in Damages : reload(d) /\ Did("reload", Null, d)

SpecLoad == Init /\ [][NextLoad]_vars

\* Stored order of the roster: the handlers whose outcome the order of the
\* stored list could bear on, on at most MaxOrderIds combatants
NextOrder ==
    \/ \E f \in AddForms :
          /\ nextId <= MaxOrderIds
          /\ addCombatant(f[1], f[2], f[3], f[4], f[5])
          /\ Did("add", Null, Null)
    \/ \E id \in Ids(listForDisplay) : toggleHidden(id) /\ Did("toggleHidden", id, Null)
    \/ \E id \in Ids(listForDisplay) : moveToGraveyard(id) /\ Did("move", id, Null)
    \/ \E id \in NonPcIds \cap Ids(listForDisplay), a \in Amounts :
          applyDamage(id, a) /\ Did("damage", id, a) /\ UNCHANGED hpOps
    \/ \E id \in NonPcIds \cap Ids(listForDisplay), v \in ExactValues :
          setExactHp(id, v) /\ Did("setExact", id, v) /\ UNCHANGED hpOps
    \/ \E id \in Ids(graveyard) : restoreFromGraveyard(id) /\ Did("restore", id, Null)
    \/ nextTurn /\ Did("nextTurn", Null, Null)
    \/ hideToast /\ Did("hideToast", Null, Null)

SpecOrder == Init /\ [][NextOrder]_vars

\* Turn navigation on at most MaxTurnIds combatants, hidden or not.  The
\* argument on record of a Next Turn or Previous Turn press is the trail of
\* the presses that came one after the other with no other handler in
\* between, the last MaxTrail of them: which button, and the active id and
\* round it found
TurnTrail(op) ==
    LET here == [op |-> op, activeId |-> activeId, round |-> round]
        t == IF last.op \in {"nextTurn", "prevTurn"}
             THEN Append(last.arg, here) ELSE <<here>>
    IN  IF Len(t) > MaxTrail THEN Tail(t) ELSE t

NextTurns ==
    \/ \E f \in AddForms :
          /\ nextId <= MaxTurnIds
          /\ addCombatant(f[1], f[2], f[3], f[4], f[5])
          /\ Did("add", Null, Null)
    \/ \E id \in Ids(listForDisplay) : toggleHidden(id) /\ Did("toggleHidden", Null, Null)
    \/ \E id \in Ids(listForDisplay) : rowClick(id) /\ Did("rowClick", Null, Null)
    \/ toggleShowHidden /\ Did("toggleShowHidden", Null, Null)
    \/ nextTurn /\ Did("nextTurn", Null, TurnTrail("nextTurn"))
    \/ prevTurn /\ Did("prevTurn", Null, TurnTrail("prevTurn"))
    \/ startEncounter /\ Did("startEncounter", Null, Null)
    \/ hideToast /\ Did("hideToast", Null, Null)

SpecTurns == Init /\ [][NextTurns]_vars

\* Roll Ties step by step on a roster of up to MaxRollIds combatants, the
\* first MaxTwoInits of them of one of two inits and the others of one;
\* combatants are added and Roll Ties is pressed while no tie is set, Clear
\* Ties clears them.  A fair die: a roll that is not taken comes up sooner
\* or later whenever there is one
RollForms ==
    {<<1, "Enemy", 1, 1, 1>>} \cup
        (IF nextId <= MaxTwoInits THEN {<<1, "PC", 30, 30, 2>>} ELSE {})

\* The record of a step of the loop; the step is no handler of its own
Rolled(op) ==
    /\ last' = [op |-> op, id |-> Null, arg |-> Null, pre |-> NoPre]
    /\ UNCHANGED <<toastAge, shownFor, deleted, movedAt>>

\* No combatant of the roster has a tie
NoTieSet == \A i \in 1..Len(combatants) : combatants[i].tie = Null

RollAdd ==
    \E f \in RollForms :
        /\ rolling.pc = "idle"
        /\ NoTieSet
        /\ nextId <= MaxRollIds
        /\ addCombatant(f[1], f[2], f[3], f[4], f[5])
        /\ Did("add", Null, Null)

RollStart == NoTieSet /\ rollTiesStart /\ Rolled("rollTiesStart")
RollRetry == rollTiesRetry /\ Rolled("rollTiesRetry")
RollRetryFresh == RollRetry /\ rolling'.roll \notin rolling.used
RollAccept ==
    rollTiesAccept /\ Rolled(IF rolling'.pc = "idle" THEN "rollTies" ELSE "rollTiesAccept")

NextRoll ==
    \/ RollAdd
    \/ RollStart
    \/ RollRetry
    \/ RollAccept
    \/ rolling.pc = "idle" /\ clearTies /\ Did("clearTies", Null, Null)
    \/ rolling.pc = "idle" /\ hideToast /\ Did("hideToast", Null, Null)

SpecRoll ==
    /\ Init
    /\ [][NextRoll]_vars
    /\ WF_vars(RollAccept)
    /\ WF_vars(RollRetry)
    /\ SF_vars(RollRetryFresh)

----------------------------------------------------------------------------
(* Specification of the HP arithmetic: every hp and maxHp the add form can  *)
(* hold, at most MaxHpOps HP changes in a run                               *)

HpForms == {<<"PC", 30, 30>>, <<"Enemy", 3, 3>>, <<"Enemy", 5, 3>>,
            <<"Enemy", 0, 3>>, <<"Enemy", -10000, 3>>, <<"Enemy", -20000, -20000>>}
HpAmounts == {-2, 1, 20000}
HpValues == {-20000, 0, 2, 7}

NextHp ==
    \/ \E f \in HpForms :
          /\ nextId <= MaxHpIds
          /\ addCombatant(1, f[1], f[2], f[3], 1)
          /\ Did("add", nextId, Null)
    \/ \E id \in Ids(combatants) : toggleDown(id) /\ Did("toggleDown", id, Null)
    \/ toggleAutoGraveyard /\ Did("toggleAutoGraveyard", Null, Null)
    \/ hideToast /\ Did("hideToast", Null, Null)
    \/ \E id \in NonPcIds, a \in HpAmounts :
          /\ hpOps < MaxHpOps
          /\ applyDamage(id, a)
          /\ Did("damage", id, a)
          /\ hpOps' = hpOps + 1
    \/ \E id \in NonPcIds, a \in HpAmounts :
          /\ hpOps < MaxHpOps
          /\ applyHeal(id, a)
          /\ Did("heal", id, a)
          /\ hpOps' = hpOps + 1
    \/ \E id \in NonPcIds, v \in HpValues :
          /\ hpOps < MaxHpOps
          /\ setExactHp(id, v)
          /\ Did("setExact", id, v)
          /\ hpOps' = hpOps + 1

SpecHp == Init /\ [][NextHp]_vars

----------------------------------------------------------------------------
(* Specification of sortByInit alone: every list of at most MaxLen         *)
(* combatants over the keys below, then one call                           *)

SortInits == {1, 2}
SortTies == {Null, 5, 15}
SortNames == {1, 2}
SortKeys == [init : SortInits, tie : SortTies, name : SortNames]

\* Lists of n keys, the position in the list as id
KeyLists(n) ==
    {[i \in 1..n |-> [id |-> i, init |-> k[i].init, tie |-> k[i].tie,
                      name |-> k[i].name]] : k \in [1..n -> SortKeys]}

InitSort ==
    /\ combatants = <<>>
    /\ graveyard = <<>>
    /\ activeId = Null
    /\ round = 1
    /\ settings = [autoGraveyard |-> TRUE, showHidden |-> FALSE]
    /\ toast = NoToast
    /\ nextId = 1
    /\ hpOps = 0
    /\ toastAge = 0
    /\ shownFor = 0
    /\ last = NoLast
    /\ deleted = {}
    /\ movedAt = NoTimes
    /\ rolling = NotRolling
    /\ sortInput \in UNION {KeyLists(n) : n \in 0..MaxLen}
    /\ sortOutput = <<>>

SortStep ==
    /\ last.op = "init"
    /\ sortOutput' = sortByInit(sortInput)
    /\ last' = [op |-> "sort", id |-> Null, arg |-> Null, pre |-> NoPre]
    /\ UNCHANGED <<combatants, graveyard, activeId, round, settings, toast,
                   nextId, hpOps, toastAge, shownFor, deleted, movedAt,
                   rolling, sortInput>>

NextSort == SortStep

SpecSort == InitSort /\ [][NextSort]_vars

----------------------------------------------------------------------------
(* Specification of undo among edits that show no toast: actions with an    *)
(* undo toast on at most MaxUndoIds combatants, and between them damage,    *)
(* heal, tie edits, hide/unhide and notes edits                             *)

UndoForms == {<<1, "PC", 30, 30, 2>>, <<2, "Enemy", 2, 3, 2>>}
UndoAmounts == {1}
UndoTies == {Null, 50}
UndoNotes == {1}

NextUndo ==
    \/ \E f \in UndoForms :
          /\ nextId <= MaxUndoIds
          /\ addCombatant(f[1], f[2], f[3], f[4], f[5])
          /\ Did("add", Null, Null)
    \/ \E id \in Ids(listForDisplay) : moveToGraveyard(id) /\ Did("move", Null, Null)
    \/ \E id \in NonPcIds \cap Ids(listForDisplay), a \in UndoAmounts :
          /\ hpOps < MaxHpOps
          /\ applyDamage(id, a)
          /\ Did("damage", Null, Null)
          /\ hpOps' = hpOps + 1
    \/ \E id \in NonPcIds \cap Ids(listForDisplay), a \in UndoAmounts :
          /\ hpOps < MaxHpOps
          /\ applyHeal(id, a)
          /\ Did("heal", Null, Null)
          /\ hpOps' = hpOps + 1
    \/ \E id \in Ids(listForDisplay), v \in UndoTies :
          setTie(id, v) /\ Did("setTie", Null, Null)
    \/ \E id \in Ids(listForDisplay) : toggleHidden(id) /\ Did("toggleHidden", Null, Null)
    \/ \E id \in Ids(listForDisplay), v \in UndoNotes :
          editNotes(id, v) /\ Did("editNotes", Null, Null)
    \/ toggleShowHidden /\ Did("toggleShowHidden", Null, Null)
    \/ undo /\ Did("undo", Null, Null)
    \/ hideToast /\ Did("hideToast", Null, Null)

SpecUndo == Init /\ [][NextUndo]_vars

----------------------------------------------------------------------------
(* Properties *)

\* The combatant the last handler was aimed at, wherever it is now
Target == Find(combatants \o graveyard, last.id)
TargetKnown == last.id \in Ids(combatants \o graveyard)

\* x's tie outranks y's: an absent tie ranks below every set tie
TieGreater(x, y) == x.tie # Null /\ (y.tie = Null \/ x.tie > y.tie)

\* x may stand before y in the turn order
MayPrecede(x, y) ==
    \/ x.init > y.init
    \/ x.init = y.init /\ TieGreater(x, y)
    \/ x.init = y.init /\ x.tie = y.tie /\ x.name <= y.name

\* C1: sortByInit returns a permutation of its input in which every x placed
\* before y has the greater init, or the same init and the greater tie (absent
\* below every set tie), or the same init and tie and a name not after y's.
C1_SortOrder ==
    last.op = "sort" =>
        /\ Len(sortOutput) = Len(sortInput)
        /\ {sortOutput[i] : i \in 1..Len(sortOutput)}
               = {sortInput[i] : i \in 1..Len(sortInput)}
        /\ \A i, j \in 1..Len(sortOutput) :
               i < j => MayPrecede(sortOutput[i], sortOutput[j])

\* A sorted list of three that the call had to reorder, with a set tie ahead of
\* an absent one and a pair ordered by name alone
C1_Witness ==
    /\ last.op = "sort"
    /\ Len(sortOutput) = 3
    /\ sortOutput # sortInput
    /\ sortOutput[1].init = sortOutput[3].init
    /\ sortOutput[1].tie # Null
    /\ sortOutput[2].tie = Null
    /\ sortOutput[3].tie = Null
    /\ sortOutput[2].name < sortOutput[3].name

\* C2: applyDamage on a non-Player combatant with numeric hp sets its hp to
\* max(-9999, min(maxHp, hp - |amount|)); the sign of amount is ignored and
\* the hp is never below -9999.
C2_DamageClamp ==
    (last.op = "damage" /\ IsTracked(last.pre)) =>
        /\ TargetKnown
        /\ Target.hp = Max2(-9999, Min2(last.pre.maxHp, last.pre.hp - Abs(last.arg)))
        /\ Target.hp >= -9999

\* A negative amount has reduced the hp by its absolute value
C2_Witness ==
    /\ last.op = "damage"
    /\ last.arg = -2
    /\ last.pre.hp = 3
    /\ TargetKnown
    /\ Target.hp = 1

\* C3: applyHeal sets hp to max(-9999, min(maxHp, hp + |amount|)),
\* so after a heal the hp never exceeds maxHp.
C3_HealNeverAboveMax ==
    (last.op = "heal" /\ IsTracked(last.pre)) =>
        /\ TargetKnown
        /\ Target.hp = Max2(-9999, Min2(last.pre.maxHp, last.pre.hp + Abs(last.arg)))
        /\ Target.hp <= Target.maxHp

\* C4: setExactHp on a non-Player combatant with numeric hp sets its hp to
\* max(-9999, min(maxHp, value)) regardless of the previous hp.
C4_SetExactClamp ==
    (last.op = "setExact" /\ IsTracked(last.pre)) =>
        /\ TargetKnown
        /\ Target.hp = Max2(-9999, Min2(last.pre.maxHp, last.arg))

\* An exact value within range replaced a different previous hp
C4_Witness ==
    /\ last.op = "setExact"
    /\ last.arg = 2
    /\ last.pre.hp = -10000
    /\ TargetKnown
    /\ Target.hp = 2

\* C5: right after applyDamage, applyHeal or setExactHp on an HP-tracked
\* combatant its down flag equals (hp <= 0), whatever the flag was before.
C5_DownFollowsHp ==
    (last.op \in {"damage", "heal", "setExact"} /\ IsTracked(last.pre)) =>
        /\ TargetKnown
        /\ Target.down = (Target.hp <= 0)

\* The flag had been forced by Mark Down and the HP change put it back
C5_Witness ==
    /\ last.op \in {"damage", "heal", "setExact"}
    /\ last.pre.hp > 0
    /\ last.pre.down
    /\ TargetKnown
    /\ Target.hp > 0
    /\ ~Target.down

\* C6: every non-Player combatant in the roster or the graveyard has
\* -9999 <= hp <= maxHp, also directly after addCombatant.
C6_HpInRange ==
    \A i \in 1..Len(combatants \o graveyard) :
        LET c == (combatants \o graveyard)[i]
        IN  c.team # "PC" => (-9999 <= c.hp /\ c.hp <= c.maxHp)

\* C7: every Player combatant has hp and maxHp null and down = false
\* in every reachable state, also after the manual down toggle.
C7_PlayerNeverDown ==
    \A i \in 1..Len(combatants \o graveyard) :
        LET c == (combatants \o graveyard)[i]
        IN  c.team = "PC" => (c.hp = Null /\ c.maxHp = Null /\ ~c.down)

\* What does hold of Players: hp and maxHp are null in every reachable state, a
\* Player is created with down = false, and only the manual down toggle aimed
\* at it changes its down flag: damage, heal and set-exact never do.
PlayerHpNull ==
    [][\A i \in 1..Len(combatants') :
          LET c == combatants'[i]
          IN  c.team = "PC" =>
                  /\ c.hp = Null
                  /\ c.maxHp = Null
                  /\ IF c.id \in Ids(combatants)
                     THEN (last'.op = "toggleDown" /\ last'.id = c.id)
                              \/ c.down = Find(combatants, c.id).down
                     ELSE ~c.down]_vars

\* An HP change ran on an enemy while a Player stood marked down
PlayerMarkedDown ==
    /\ last.op \in {"damage", "heal", "setExact"}
    /\ \E i \in 1..Len(combatants) :
           /\ combatants[i].team = "PC"
           /\ combatants[i].down
           /\ combatants[i].hp = Null

NoDup(list) == \A i, j \in 1..Len(list) : i # j => list[i].id # list[j].id

\* C8: no id is in both the roster and the graveyard or twice in either, also
\* after undo; moveToGraveyard, auto-graveyard and restoreFromGraveyard take
\* each entry out of one collection and put it into the other in one step.
C8_OneCollection ==
    [][/\ NoDup(combatants')
       /\ NoDup(graveyard')
       /\ Ids(combatants') \cap Ids(graveyard') = {}
       /\ last'.op = "move" =>
              LET gone == Ids(combatants) \ Ids(combatants')
              IN  /\ Cardinality(gone) = 1
                  /\ Ids(combatants') = Ids(combatants) \ gone
                  /\ Ids(graveyard') = Ids(graveyard) \cup gone
       /\ last'.op \in {"damage", "setExact"} =>
              LET gone == Ids(combatants) \ Ids(combatants')
              IN  /\ Ids(combatants') = Ids(combatants) \ gone
                  /\ Ids(graveyard') = Ids(graveyard) \cup gone
       /\ last'.op = "restore" =>
              LET back == Ids(graveyard) \ Ids(graveyard')
              IN  /\ Cardinality(back) = 1
                  /\ Ids(graveyard') = Ids(graveyard) \ back
                  /\ Ids(combatants') = Ids(combatants) \cup back]_vars

\* A state reached through undo with both collections in use
C8_Witness ==
    /\ last.op = "undo"
    /\ Len(combatants) >= 1
    /\ Len(graveyard) >= 2

IdsInOrder(list) == [i \in 1..Len(list) |-> list[i].id]

\* C9: with auto-graveyard enabled, after applyDamage or setExactHp every
\* non-Player combatant with numeric hp <= 0 has left the roster, and the batch
\* is at the head of the graveyard in roster order, each with a removedAt,
\* followed by the earlier graveyard entries.
C9_AutoGraveBatch ==
    [][(last'.op \in {"damage", "setExact"} /\ settings.autoGraveyard) =>
          LET n == Len(graveyard') - Len(graveyard)
              batch == SubSeq(graveyard', 1, n)
          IN  /\ n >= 0
              /\ SubSeq(graveyard', n + 1, Len(graveyard')) = graveyard
              /\ \A i \in 1..Len(combatants') :
                     ~(/\ combatants'[i].team # "PC"
                       /\ combatants'[i].hp # Null
                       /\ combatants'[i].hp <= 0)
              /\ \A i \in 1..n :
                     /\ batch[i].team # "PC"
                     /\ batch[i].hp <= 0
                     /\ batch[i].removedAt # NoTime
              /\ Ids(batch) \subseteq Ids(combatants)
              /\ IdsInOrder(batch)
                     = IdsInOrder(SelectSeq(combatants, LAMBDA c : c.id \in Ids(batch)))
              /\ IdsInOrder(combatants')
                     = IdsInOrder(SelectSeq(combatants, LAMBDA c : c.id \notin Ids(batch)))]_vars

\* A damage swept two dead enemies at once onto a graveyard that held one entry
C9_Witness ==
    /\ last.op = "damage"
    /\ toast.kind = "auto"
    /\ Len(toast.graveyard) = 1
    /\ Len(graveyard) = 3
    /\ graveyard[1].hp <= 0
    /\ graveyard[2].hp <= 0
    /\ graveyard[1].id < graveyard[2].id

\* What C10 says of every moveToGraveyard but for the active id
MoveFrame ==
    /\ Len(graveyard') = Len(graveyard) + 1
    /\ Tail(graveyard') = graveyard
    /\ graveyard'[1].id \in Ids(combatants)
    /\ combatants' = SelectSeq(combatants, LAMBDA c : c.id # graveyard'[1].id)
    /\ LET orig == Find(combatants, graveyard'[1].id)
       IN  [graveyard'[1] EXCEPT !.removedAt = orig.removedAt] = orig
    /\ graveyard'[1].removedAt # NoTime
    /\ round' = round

\* C10: moveToGraveyard(id) removes exactly that combatant, puts its
\* snapshot plus removedAt at the head of the graveyard, leaves the round
\* unchanged, and leaves the active id unchanged when the moved combatant was
\* not the active one.
C10_MoveKeepsOtherActive ==
    [][last'.op = "move" =>
          /\ MoveFrame
          /\ activeId # graveyard'[1].id => activeId' = activeId]_vars

\* What does hold of moveToGraveyard: the same, the active id being left
\* unchanged when it was the id of a non-hidden roster combatant other than the
\* moved one.
MoveKeepsValidActive ==
    [][last'.op = "move" =>
          /\ MoveFrame
          /\ (/\ activeId # graveyard'[1].id
              /\ \E i \in 1..Len(combatants) :
                     combatants[i].id = activeId /\ ~combatants[i].hidden)
                 => activeId' = activeId]_vars

\* A move in round 2 onto a graveyard with an earlier entry, the active
\* combatant staying in the roster
MoveOntoEarlierEntries ==
    /\ last.op = "move"
    /\ Len(graveyard) >= 2
    /\ Len(combatants) >= 1
    /\ round = 2
    /\ activeId \in Ids(combatants)

\* C11: when the active combatant leaves the roster through moveToGraveyard or
\* auto-graveyard, the active id becomes the head of sortByInit applied to the
\* remaining non-hidden combatants, or none when no visible combatant remains.
C11_ActiveToSortedHead ==
    [][(/\ last'.op \in {"move", "damage", "setExact"}
        /\ activeId \in Ids(combatants)
        /\ activeId \notin Ids(combatants')) =>
          activeId' = IF Len(visible') > 0 THEN visible'[1].id ELSE Null]_vars

\* What does hold when the active combatant leaves: the active id becomes the
\* first non-hidden combatant of the remaining roster in stored order
ActiveToStoredHead ==
    [][(/\ last'.op \in {"move", "damage", "setExact"}
        /\ activeId \in Ids(combatants)
        /\ activeId \notin Ids(combatants')) =>
          activeId' = IF Len(Visible(combatants')) > 0
                      THEN Visible(combatants')[1].id ELSE Null]_vars

\* The entry of a graveyard or roster list that has the id
Entry(list, id) == Find(list, id)

\* Every combatant that enters the graveyard in this step is the roster
\* combatant as the handler moved it: all fields but removedAt as in the
\* roster, hp and down as the damage left them when the damage killed it
SnapshotOnEntry ==
    \A id \in (Ids(graveyard') \ Ids(graveyard)) \cap Ids(combatants) :
        LET g == Entry(graveyard', id)
            c == Entry(combatants, id)
        IN  /\ g.name = c.name /\ g.team = c.team /\ g.maxHp = c.maxHp
            /\ g.init = c.init /\ g.tie = c.tie /\ g.hidden = c.hidden
            /\ g.notes = c.notes
            /\ \/ g.hp = c.hp /\ g.down = c.down
               \/ last'.op = "damage" /\ g.hp <= 0 /\ g.down

\* An entry that stays in the graveyard is not changed
GraveyardEntriesKept ==
    \A id \in Ids(graveyard) \cap Ids(graveyard') :
        Entry(graveyard', id) = Entry(graveyard, id)

\* restoreFromGraveyard takes one entry out of the graveyard and puts it,
\* every field as in the graveyard, into the roster
RestoredAsStored ==
    LET back == Ids(graveyard) \ Ids(graveyard')
    IN  /\ Cardinality(back) = 1
        /\ \A id \in back :
               /\ id \in Ids(combatants')
               /\ Entry(combatants', id) = Entry(graveyard, id)

\* The displayed list holds id at sortByInit position: nothing before it
\* compares greater, nothing behind it compares smaller
DisplayedInOrder(list, id) ==
    /\ id \in Ids(list)
    /\ LET i == CHOOSE k \in 1..Len(list) : list[k].id = id
       IN  /\ \A j \in 1..(i - 1) : Compare(list[j], list[i]) <= 0
           /\ \A j \in (i + 1)..Len(list) : Compare(list[i], list[j]) <= 0

\* C12: a combatant moved to the graveyard, manually or by auto-graveyard, and
\* then restored is out of the graveyard and back in the roster with the id,
\* name, team, hp, maxHp, init, tie, hidden, down and notes it had when it was
\* moved, and it appears at its sortByInit position in the displayed order.
C12_RestoreRoundTrip ==
    [][/\ SnapshotOnEntry
       /\ GraveyardEntriesKept
       /\ last'.op = "restore" =>
              /\ RestoredAsStored
              /\ \A id \in Ids(graveyard) \ Ids(graveyard') :
                     DisplayedInOrder(listForDisplay', id)]_vars

\* C12 amended: as stated, but the restored combatant appears at its
\* sortByInit position in the displayed order unless it is hidden while
\* show-hidden is off: then it is in the roster and not displayed.
C12_RestoreRoundTripShown ==
    [][/\ SnapshotOnEntry
       /\ GraveyardEntriesKept
       /\ last'.op = "restore" =>
              /\ RestoredAsStored
              /\ \A id \in Ids(graveyard) \ Ids(graveyard') :
                     IF Entry(graveyard, id).hidden /\ ~settings.showHidden
                     THEN id \notin Ids(listForDisplay')
                     ELSE DisplayedInOrder(listForDisplay', id)]_vars

\* A restore brought back an enemy that auto-graveyard had moved at hp <= 0,
\* marked down, behind a combatant of higher initiative
C12_Witness ==
    /\ last.op = "restore"
    /\ Len(listForDisplay) >= 2
    /\ \E i \in 2..Len(listForDisplay) :
           /\ listForDisplay[i].removedAt = Stamp
           /\ listForDisplay[i].team # "PC"
           /\ listForDisplay[i].hp <= 0
           /\ listForDisplay[i].down
           /\ listForDisplay[1].removedAt = NoTime
           /\ listForDisplay[1].init > listForDisplay[i].init

SharesInit(i) ==
    \E j \in 1..Len(combatants) : j # i /\ combatants[j].init = combatants[i].init

C16_TieInRange ==
    [][/\ \A i \in 1..Len(combatants' \o graveyard') :
              LET t == (combatants' \o graveyard')[i].tie
              IN  t = Null \/ t \in 1..20
       /\ last'.op = "setTie" =>
              LET t == Find(combatants', last'.id).tie
                  v == last'.arg
              IN  IF v = Null \/ v = NotNumber THEN t = Null
                  ELSE \E n \in -3..21 :
                           /\ 10 * n - 5 <= v /\ v < 10 * n + 5
                           /\ t = IF n < 1 THEN 1 ELSE IF n > 20 THEN 20 ELSE n
       /\ last'.op = "clearTies" =>
              \A i \in 1..Len(combatants') : combatants'[i].tie = Null]_vars

\* setTie stored 3 for the text "2.5" on a combatant in a roster where another
\* tie came from Roll Ties
C16_Witness ==
    /\ last.op = "setTie"
    /\ last.arg = 25
    /\ Find(combatants, last.id).tie = 3
    /\ \E i \in 1..Len(combatants) : combatants[i].tie = 7

\* Roster, graveyard, active id and round are as before the step
FourSlicesKept ==
    /\ combatants' = combatants
    /\ graveyard' = graveyard
    /\ activeId' = activeId
    /\ round' = round

\* The last handler was an HP handler aimed at no HP-tracked roster combatant,
\* or a move, restore or delete-forever aimed at an id its collection lacks
AimedAtNothing ==
    \/ /\ last'.op \in {"damage", "heal", "setExact"}
       /\ \/ last'.id \notin Ids(combatants)
          \/ Find(combatants, last'.id).team = "PC"
    \/ last'.op = "move" /\ last'.id \notin Ids(combatants)
    \/ last'.op \in {"restore", "delete"} /\ last'.id \notin Ids(graveyard)

\* C17: applyDamage, applyHeal or setExactHp aimed at an id that is not in the
\* roster or at a Player, and moveToGraveyard, restoreFromGraveyard or
\* delete-forever aimed at an unknown id, leave roster, graveyard, active id
\* and round unchanged, also when auto-graveyard is enabled and some other
\* roster combatant has hp <= 0.
C17_UnknownIdNoOp ==
    [][AimedAtNothing => FourSlicesKept]_vars

\* What does hold of these calls: the four slices are unchanged unless the
\* call is applyDamage or setExactHp, auto-graveyard is enabled and a roster
\* combatant has hp <= 0
NoOpButForSweep ==
    [][(/\ AimedAtNothing
        /\ ~(/\ last'.op \in {"damage", "setExact"}
             /\ settings.autoGraveyard
             /\ \E i \in 1..Len(combatants) : IsDead(combatants[i])))
          => FourSlicesKept]_vars

\* C18: at most one undo is pending at any time: the toast of a new undoable
\* action replaces the pending undo, which can then never be applied, and
\* invoking undo or dismissing the toast leaves no pending undo.
C18_OneUndoPending ==
    [][/\ Cardinality(toast'.timers) <= 1
       /\ toast'.kind = "none" <=> toast'.timers = {}
       /\ last'.op \in {"undo", "hideToast"} => toast'.kind = "none"
       /\ last'.op = "undo" =>
              /\ toast.kind # "none"
              /\ combatants' = UndoCombatants
              /\ graveyard' = UndoGraveyard
              /\ activeId' = UndoActiveId
              /\ round' = UndoRound
       /\ last'.op \in {"add", "move", "restore"} =>
              /\ toast'.kind = last'.op
              /\ toast'.combatants \in {<<>>, combatants}
              /\ toast'.graveyard \in {<<>>, graveyard}
              /\ toast'.activeId \in {Null, activeId}
              /\ toast'.round \in {1, round}]_vars

\* Undo was invoked a second or more after its toast was shown, with roster
\* and graveyard in use
C18_Witness ==
    /\ last.op = "undo"
    /\ shownFor >= 1
    /\ Len(combatants) >= 1
    /\ Len(graveyard) >= 1

\* C19: for every undoable action, undo invoked with no other action in
\* between returns roster, graveyard, active id and round to the values they
\* had before the action.
C19_UndoRestoresAll ==
    [][/\ (toast' # toast /\ toast'.kind # "none") =>
              /\ UndoCombatants' = combatants
              /\ UndoGraveyard' = graveyard
              /\ UndoActiveId' = activeId
              /\ UndoRound' = round
       /\ last'.op = "undo" =>
              /\ combatants' = UndoCombatants
              /\ graveyard' = UndoGraveyard
              /\ activeId' = UndoActiveId
              /\ round' = UndoRound]_vars

\* What does hold of undo: the same for every toast but those of
\* auto-graveyard and restore
UndoRestoresButAutoRestore ==
    [][/\ (toast' # toast /\ toast'.kind \notin {"none", "auto", "restore"}) =>
              /\ UndoCombatants' = combatants
              /\ UndoGraveyard' = graveyard
              /\ UndoActiveId' = activeId
              /\ UndoRound' = round
       /\ last'.op = "undo" =>
              /\ combatants' = UndoCombatants
              /\ graveyard' = UndoGraveyard
              /\ activeId' = UndoActiveId
              /\ round' = UndoRound]_vars

\* C20: once 5 seconds have passed since the most recent toast was shown the
\* toast is cleared and undo can no longer be invoked; the timer of an older
\* toast never clears a toast shown after it.
C20_ToastExpires ==
    [][/\ toast'.kind # "none" => shownFor' < 5
       /\ (last'.op = "tick" /\ toast.kind # "none" /\ toast'.kind = "none")
              => shownFor' = 5]_vars

\* The timer cleared the toast of a move or restore, shown after the toast of
\* an add, 5 s after it was shown
C20_Witness ==
    /\ last.op = "tick"
    /\ toast.kind = "none"
    /\ shownFor = 5
    /\ nextId > 1
    /\ Len(graveyard) >= 1

\* What the page load made of key k, the slice being before and after
LoadedOrDefault(k, before, after, default) ==
    after = IF last'.arg[k] = "keep" THEN before ELSE default

\* C21: on load, each of the five persisted keys (settings, roster,
\* graveyard, active id, round) that is missing or holds an unparseable
\* value is initialised to its default (default settings, empty roster,
\* empty graveyard, no active id, round 1) independently of the other keys,
\* which still load their stored values; loading never fails: a load is
\* possible whatever became of the keys.
C21_LoadFallsBackPerKey ==
    /\ [](\A d \in Damages : ENABLED (reload(d) /\ Did("reload", Null, d)))
    /\ [][last'.op = "reload" =>
            /\ LoadedOrDefault("settings", settings, settings', DefaultSettings)
            /\ LoadedOrDefault("combatants", combatants, combatants', <<>>)
            /\ LoadedOrDefault("graveyard", graveyard, graveyard', <<>>)
            /\ LoadedOrDefault("activeId", activeId, activeId', Null)
            /\ LoadedOrDefault("round", round, round', 1)]_vars

\* A load that lost the roster key and found garbage under the round key
\* while graveyard, active id and settings came back as stored, none of them
\* at its default
C21_Witness ==
    /\ last.op = "reload"
    /\ last.arg["combatants"] = "missing"
    /\ last.arg["round"] = "garbage"
    /\ last.arg["graveyard"] = "keep"
    /\ last.arg["activeId"] = "keep"
    /\ last.arg["settings"] = "keep"
    /\ combatants = <<>>
    /\ round = 1
    /\ Len(graveyard) > 0
    /\ activeId # Null
    /\ settings.showHidden

\* C22: the auto-graveyard scan is applied after heal just as after damage
\* and set-exact: with auto-graveyard enabled, once applyHeal completes no
\* non-Player combatant with numeric hp <= 0 remains in the active roster.
C22_HealRunsAutoGrave ==
    [][(last'.op = "heal" /\ settings.autoGraveyard) =>
          \A i \in 1..Len(combatants') : ~IsDead(combatants'[i])]_vars

\* What does hold: damage and set-exact leave no dead non-Player in the
\* roster while auto-graveyard is enabled, and heal moves nobody
ScanAfterDamageAndSetExact ==
    [][/\ (last'.op \in {"damage", "setExact"} /\ settings.autoGraveyard) =>
              \A i \in 1..Len(combatants') : ~IsDead(combatants'[i])
       /\ last'.op = "heal" =>
              /\ Ids(combatants') = Ids(combatants)
              /\ graveyard' = graveyard
              /\ toast' = toast]_vars

\* The stored lists that hold the combatants of list, in every order
Orders(list) ==
    LET n == Len(list)
        perms == {f \in [1..n -> 1..n] : \A i, j \in 1..n : f[i] = f[j] => i = j}
    IN  {[i \in 1..n |-> list[f[i]]] : f \in perms}

\* The roster a handler stores when it finds list as the stored roster, the
\* other slices being those of the present state: the handler op called with
\* id and arg
StoredAfter(list, op, id, arg) ==
    IF op = "move" THEN Without(list, id)
    ELSE IF op = "toggleHidden"
         THEN MapAt(list, id, Patched(Find(list, id),
                                      [hidden |-> ~Find(list, id).hidden]))
    ELSE IF op = "restore" THEN sortByInit(<<Find(graveyard, id)>> \o list)
    ELSE IF op = "damage"
         THEN autoGrave(MapAt(list, id, applyDamagePure(Find(list, id), arg))).combatants
    ELSE autoGrave(MapAt(list, id, setExactPure(Find(list, id), arg))).combatants

\* Active id, round and displayed roster after that call
Outcome(list, op, id, arg) ==
    LET next == StoredAfter(list, op, id, arg)
    IN  [activeId |-> ensureActiveValid(next), round |-> round,
         shown |-> sortByInit(next)]

OrderOps == {"move", "toggleHidden", "restore", "damage", "setExact"}

\* Outcome describes the steps of the handlers: what it gives for the stored
\* roster is what the step leaves
OutcomeIsStep ==
    [][last'.op \in OrderOps =>
          Outcome(combatants, last'.op, last'.id, last'.arg)
              = [activeId |-> activeId', round |-> round', shown |-> sorted']]_vars

\* C23: transitions depend only on the set of combatants, not on list
\* order: applying the same action (move to graveyard, damage, set-exact,
\* hide, restore) to two rosters that hold the same combatants in different
\* list order, with the same graveyard, active id and round, yields the same
\* resulting active id, round and displayed (sorted) roster.
C23_OrderIndependent ==
    [][last'.op \in OrderOps =>
          \A other \in Orders(combatants) :
              Outcome(other, last'.op, last'.id, last'.arg)
                  = Outcome(combatants, last'.op, last'.id, last'.arg)]_vars

\* No two combatants of the list have the same init, tie and name
KeysDiffer(list) ==
    \A i, j \in 1..Len(list) :
        i # j => Compare(list[i], list[j]) # 0

\* What does hold: the round never depends on the order; the displayed
\* roster does not where the sort keys tell the combatants apart; the active
\* id does not where it stays on a non-hidden combatant of the roster
OrderIndependentButActive ==
    [][last'.op \in OrderOps =>
          \A other \in Orders(combatants) :
              LET mine == Outcome(combatants, last'.op, last'.id, last'.arg)
                  theirs == Outcome(other, last'.op, last'.id, last'.arg)
              IN  /\ theirs.round = mine.round
                  /\ Ids(theirs.shown) = Ids(mine.shown)
                  /\ KeysDiffer(mine.shown) => theirs.shown = mine.shown
                  /\ activeId \in Ids(Visible(mine.shown))
                         => theirs.activeId = mine.activeId]_vars

\* The ids of the Players of a list
PlayerIds(list) == {list[i].id : i \in {j \in 1..Len(list) : list[j].team = "PC"}}

\* C24: auto-graveyard only acts when enabled and only on non-Players: with
\* the setting disabled, applyDamage, applyHeal and setExactHp never change
\* which combatants are in the roster or in the graveyard, and with it
\* enabled a Player combatant is never moved to the graveyard by them.
C24_AutoGraveOnlyEnabledNonPlayers ==
    [][last'.op \in {"damage", "heal", "setExact"} =>
          /\ ~settings.autoGraveyard =>
                 /\ Ids(combatants') = Ids(combatants)
                 /\ graveyard' = graveyard
          /\ PlayerIds(combatants) \subseteq Ids(combatants')
          /\ PlayerIds(graveyard') \subseteq Ids(graveyard)]_vars

\* With the setting disabled a damage left a non-Player at hp <= 0 in the
\* roster, next to a Player
C24_Witness ==
    /\ last.op = "damage"
    /\ ~settings.autoGraveyard
    /\ graveyard = <<>>
    /\ PlayerIds(combatants) # {}
    /\ TargetKnown
    /\ Target.hp # Null
    /\ Target.hp <= 0
    /\ last.pre.hp > 0
    /\ last.id \in Ids(combatants)

\* C25: in every reachable state the graveyard list is ordered
\* most-recent-first: an entry moved to the graveyard in a later step (manual
\* move or auto-graveyard batch) precedes every entry moved in an earlier
\* step, and this still holds after restore, delete-forever, clear and undo.
C25_GraveyardMostRecentFirst ==
    /\ Ids(graveyard) \subseteq DOMAIN movedAt.at
    /\ \A i, j \in 1..Len(graveyard) :
           movedAt.at[graveyard[i].id] > movedAt.at[graveyard[j].id] => i < j

\* An undo has brought back a graveyard of three entries moved at two
\* different times, two of them in one auto-graveyard batch
C25_Witness ==
    /\ last.op = "undo"
    /\ Len(graveyard) = 3
    /\ Cardinality({movedAt.at[i] : i \in Ids(graveyard)}) = 2
    /\ movedAt.at[graveyard[1].id] = movedAt.at[graveyard[2].id]

\* C26: in every reachable state the active id is either none or the id of a
\* non-hidden combatant that is currently in the active roster; this holds
\* after any sequence of add, hide/unhide, move to graveyard, auto-graveyard,
\* restore, clear, row selection and undo.
C26_ActiveIdValid ==
    \/ activeId = Null
    \/ \E i \in 1..Len(combatants) :
           combatants[i].id = activeId /\ ~combatants[i].hidden

\* What does hold without undo: the active id is none or the id of a roster
\* combatant, hidden or not, and it is none or a non-hidden one after every
\* handler that calls ensureActiveValid and after turn navigation
ActiveIdInRoster ==
    /\ [](activeId = Null \/ activeId \in Ids(combatants))
    /\ [][last'.op \in {"toggleHidden", "move", "restore", "nextTurn",
                        "prevTurn", "startEncounter"} => C26_ActiveIdValid']_vars

\* The trail on record holds k presses or more and its last k are all of op
LastPresses(k, op) ==
    /\ last.op \in {"nextTurn", "prevTurn"}
    /\ Len(last.arg) >= k
    /\ \A i \in (Len(last.arg) - k + 1)..Len(last.arg) : last.arg[i].op = op

\* The active id after the i-th of the last n presses on record
ActiveAfter(i, n) ==
    IF i = n THEN activeId ELSE last.arg[Len(last.arg) - n + i + 1].activeId

\* The place in visible, from 1, of the combatant with the id
PlaceOf(id) == CHOOSE i \in 1..Len(visible) : visible[i].id = id

\* C27: starting with the active id on a visible combatant and n >= 1
\* visible combatants, n consecutive nextTurn calls with no other action in
\* between make each visible combatant active exactly once in sorted order,
\* end on the starting combatant, and increase the round by exactly 1.
C27_NextTurnCycle ==
    LET n == Len(visible)
        start == last.arg[Len(last.arg) - n + 1]
    IN  (/\ n >= 1
         /\ LastPresses(n, "nextTurn")
         /\ start.activeId \in Ids(visible)) =>
            /\ {ActiveAfter(i, n) : i \in 1..n} = Ids(visible)
            /\ \A i \in 1..n :
                   PlaceOf(ActiveAfter(i, n)) = ((PlaceOf(start.activeId) + i - 1) % n) + 1
            /\ activeId = start.activeId
            /\ round = start.round + 1

\* Three Next Turn presses in a row on three visible combatants, begun on
\* the second of them
C27_Witness ==
    /\ Len(visible) = 3
    /\ LastPresses(3, "nextTurn")
    /\ last.arg[1].activeId = visible[2].id
    /\ activeId = visible[2].id
    /\ round = 2

\* The last two presses on record were one of each button, the first of
\* them finding the active id on a visible combatant
OppositePresses ==
    /\ last.op \in {"nextTurn", "prevTurn"}
    /\ Len(last.arg) >= 2
    /\ last.arg[Len(last.arg) - 1].op # last.arg[Len(last.arg)].op
    /\ last.arg[Len(last.arg) - 1].activeId \in Ids(visible)

\* The earlier of the last two presses on record
FirstOfTwo == last.arg[Len(last.arg) - 1]

\* Previous Turn pressed on the first visible combatant in round 1, where
\* the round stays at 1
AtRoundFloor(press) ==
    /\ press.op = "prevTurn"
    /\ press.round = 1
    /\ PlaceOf(press.activeId) = 1

\* C28: nextTurn and prevTurn are inverse on (active id, round): whenever
\* the active id is on a visible combatant, nextTurn followed by prevTurn,
\* and prevTurn followed by nextTurn, each restore both the active id and
\* the round to their earlier values.
C28_TurnsInverse ==
    OppositePresses =>
        /\ activeId = FirstOfTwo.activeId
        /\ round = FirstOfTwo.round

\* C28 as it holds: nextTurn followed by prevTurn restores the active id and
\* the round; prevTurn followed by nextTurn restores the active id, and the
\* round too unless prevTurn was called on the first visible combatant in
\* round 1, in which case the round ends at 2.
C28_TurnsInverseAboveFloor ==
    OppositePresses =>
        /\ activeId = FirstOfTwo.activeId
        /\ round = IF AtRoundFloor(FirstOfTwo) THEN 2 ELSE FirstOfTwo.round

\* Next Turn on the last of three visible combatants in round 1, then
\* Previous Turn: the round went to 2 and came back
C28_Witness ==
    /\ OppositePresses
    /\ Len(visible) = 3
    /\ FirstOfTwo.op = "nextTurn"
    /\ FirstOfTwo.activeId = visible[3].id
    /\ FirstOfTwo.round = 1
    /\ last.arg[Len(last.arg)].round = 2
    /\ round = 1

\* The handlers that change HP, ties, the hidden flag or the graveyard
RoundKeepers ==
    {"damage", "heal", "setExact", "setTie", "rollTies", "clearTies",
     "toggleHidden", "move", "restore", "delete", "clearGraveyard"}

\* C29: the round counter is an integer >= 1 in every reachable state:
\* nextTurn raises it by 1 exactly when the current turn is the last visible
\* combatant, prevTurn lowers it by 1 exactly when the current turn is the
\* first visible combatant and the round is above 1, and no HP, tie, hide or
\* graveyard operation changes it.
C29_RoundRules ==
    /\ [](round \in Nat /\ round >= 1)
    /\ [][/\ last'.op = "nextTurn" =>
               round' = IF activeId = visible[Len(visible)].id
                        THEN round + 1 ELSE round
          /\ last'.op = "prevTurn" =>
               round' = IF activeId = visible[1].id /\ round > 1
                        THEN round - 1 ELSE round
          /\ last'.op \in RoundKeepers => round' = round]_vars

\* What does hold: the same with the turn at index max(0, activeIndex) of
\* the visible list, which is the place of the active combatant whenever the
\* active id is on a visible combatant and the first place otherwise
RoundFollowsIndex ==
    /\ [](round \in Nat /\ round >= 1)
    /\ [][/\ last'.op = "nextTurn" =>
               round' = IF Max2(0, activeIndex) = Len(visible) - 1
                        THEN round + 1 ELSE round
          /\ last'.op = "prevTurn" =>
               round' = IF Max2(0, activeIndex) = 0 /\ round > 1
                        THEN round - 1 ELSE round
          /\ (last'.op \in {"nextTurn", "prevTurn"} /\ activeId \in Ids(visible)) =>
               Max2(0, activeIndex) + 1 = PlaceOf(activeId)
          /\ last'.op \in RoundKeepers => round' = round]_vars

\* C30: rollTies terminates for every roster, including a roster in which
\* more than 20 combatants share the same init value.
C30_RollTiesTerminates ==
    (rolling.pc = "while") ~> (rolling.pc = "idle")

\* What does hold: rollTies terminates, the die being fair, on every roster
\* in which no more than 20 combatants share an init value
TerminatesUpToDieSides ==
    (/\ rolling.pc = "while"
     /\ \A i \in 1..Len(TiedGroups(combatants)) :
            Len(TiedGroups(combatants)[i]) <= DieSides)
        ~> (rolling.pc = "idle")

\* The loop is at the 21st combatant of a group with every value of the die
\* taken: no roll ends it
LoopCannotEnd ==
    /\ rolling.pc = "while"
    /\ rolling.used = Die


----------------------------------------------------------------------------
(* Monotonicity of damage and heal *)

\* C31: applyDamage never increases and applyHeal never decreases the
\* target's hp, for every hp and maxHp addCombatant can have stored, also
\* hp above maxHp and hp below -9999.
C31_DamageHealMonotone ==
    (last.op \in {"damage", "heal"} /\ IsTracked(last.pre)) =>
        /\ TargetKnown
        /\ last.op = "damage" => Target.hp <= last.pre.hp
        /\ last.op = "heal" => Target.hp >= last.pre.hp

\* The hp is within -9999..maxHp, as every HP change leaves it
InRange(c) == HpFloor <= c.hp /\ c.hp <= c.maxHp

\* On a combatant whose hp is within range damage never increases and heal
\* never decreases the hp
MonotoneWithinRange ==
    (last.op \in {"damage", "heal"} /\ IsTracked(last.pre) /\ InRange(last.pre)) =>
        /\ TargetKnown
        /\ last.op = "damage" => Target.hp <= last.pre.hp
        /\ last.op = "heal" => Target.hp >= last.pre.hp

\* Damage raised an hp that was added below the floor
DamageRaisedHp ==
    /\ last.op = "damage"
    /\ IsTracked(last.pre)
    /\ last.pre.hp < HpFloor
    /\ TargetKnown
    /\ Target.hp > last.pre.hp

\* Heal lowered an hp that was added above maxHp
HealLoweredHp ==
    /\ last.op = "heal"
    /\ IsTracked(last.pre)
    /\ last.pre.hp > last.pre.maxHp
    /\ TargetKnown
    /\ Target.hp < last.pre.hp


----------------------------------------------------------------------------
(* Undo and the edits made while its toast was showing *)

\* The combatants the action of the present toast acted on: the one added,
\* moved, restored or deleted, the ones auto-moved, all that were cleared
ToastTargets ==
    CASE toast.kind = "add" -> Ids(combatants) \ Ids(toast.combatants)
      [] toast.kind = "move" -> Ids(toast.combatants) \ Ids(combatants)
      [] toast.kind = "restore" -> Ids(toast.graveyard) \ Ids(graveyard)
      [] toast.kind = "delete" -> Ids(toast.graveyard) \ Ids(graveyard)
      [] toast.kind = "auto" -> Ids(graveyard) \ Ids(toast.graveyard)
      [] toast.kind = "clearAll" -> Ids(toast.combatants)
      [] toast.kind = "clearGraveyard" -> Ids(toast.graveyard)
      [] OTHER -> {}

\* The roster combatants the action of the present toast did not act on
Others == Ids(combatants) \ ToastTargets

\* C32: undo reverts only the action its toast names: every other combatant
\* of the roster is after the undo as it was just before it, so what damage,
\* heal, tie edits, hide/unhide and notes edits changed since the action is
\* still present.
C32_UndoKeepsOtherEdits ==
    [][last'.op = "undo" =>
          \A id \in Others :
              /\ id \in Ids(combatants')
              /\ Find(combatants', id) = Find(combatants, id)]_vars

\* What does hold of undo: no combatant but the toast's own enters or leaves
\* the roster, and an undo that sets the graveyard alone (of auto-graveyard
\* and of delete) leaves every combatant of the roster as it was
UndoKeepsOtherMembers ==
    [][last'.op = "undo" =>
          /\ Others \subseteq Ids(combatants')
          /\ Ids(combatants') \subseteq Ids(combatants) \cup ToastTargets
          /\ toast.kind \in {"auto", "delete", "clearGraveyard"} =>
                 combatants' = combatants]_vars

\* Undo takes every other combatant back to the snapshot the action took
OthersBackToSnapshot ==
    [][(last'.op = "undo" /\ toast.kind \in {"add", "move"}) =>
          \A id \in Others :
              Find(combatants', id) = Find(toast.combatants, id)]_vars

====
